---- MODULE Spec2Model ----
(***************************************************************************)
(* A model of pgbouncer_exporter: the schema tables and makeMetricMaps,    *)
(* the value coercion dbToFloat64, the two row converters, Query, and the  *)
(* scrape orchestrator (Describe / Collect / scrape) with its shared       *)
(* health gauges, its sync.RWMutex and its one-connection database pool.   *)
(*                                                                         *)
(* Representation choices:                                                 *)
(*  - a Go string is a TLA+ string; TextChars gives the characters of the  *)
(*    texts that can occur in a cell, so that parsing is computed          *)
(*    character by character;                                              *)
(*  - a float64 is a decimal number m * 10^e (record [nan, m, e], kept      *)
(*    normalised), exact for the decimal texts and the small integers the  *)
(*    model draws; NaN is the record with nan = TRUE;                      *)
(*  - a database cell is a record [kind, i, f, s]; kind is the Go dynamic  *)
(*    type the driver hands back, and the value sits in the field of its   *)
(*    kind.                                                                *)
(***************************************************************************)
EXTENDS Integers, Sequences, FiniteSets, TLC

\* --------------------------------------------------------------- bounds

\* Number of concurrent HTTP scrape requests (goroutines calling Collect).
NumCollectors == 2
\* Total number of polls (scrape calls) started in one behaviour.
MaxScrapes == 3
\* The int64 cells the function specifications draw are -MaxInt .. MaxInt.
MaxInt == 3

\* ------------------------------------------------------------- float64

NaN == [nan |-> TRUE, m |-> 0, e |-> 0]

RECURSIVE Norm(_, _)
\* The decimal number m * 10^e, normalised (no trailing zero in m).
Norm(m, e) ==
    IF m = 0 THEN [nan |-> FALSE, m |-> 0, e |-> 0]
    ELSE IF m % 10 = 0 THEN Norm(m \div 10, e + 1)
    ELSE [nan |-> FALSE, m |-> m, e |-> e]

\* float64 multiplication (value * multiplier); NaN is absorbing.
FMul(a, b) ==
    IF a.nan \/ b.nan THEN NaN ELSE Norm(a.m * b.m, a.e + b.e)

\* float64(v) of an int64.
FromInt(v) == Norm(v, 0)

\* ---------------------------------------------------------------- text

\* The characters of every text the model puts in a cell.
TextChars ==
    ("" :> << >>) @@
    ("3" :> << "3" >>) @@
    ("7" :> << "7" >>) @@
    ("100" :> << "1", "0", "0" >>) @@
    ("42.5" :> << "4", "2", ".", "5" >>) @@
    ("-7" :> << "-", "7" >>) @@
    ("+3" :> << "+", "3" >>) @@
    ("1." :> << "1", "." >>) @@
    (".5" :> << ".", "5" >>) @@
    ("." :> << "." >>) @@
    ("+" :> << "+" >>) @@
    ("1.2.3" :> << "1", ".", "2", ".", "3" >>) @@
    ("3a" :> << "3", "a" >>) @@
    ("abc" :> << "a", "b", "c" >>) @@
    ("db1" :> << "d", "b", "1" >>) @@
    ("2500000" :> << "2", "5", "0", "0", "0", "0", "0" >>)

DigitVal ==
    [ c \in {"0", "1", "2", "3", "4", "5", "6", "7", "8", "9"} |->
        CASE c = "0" -> 0 [] c = "1" -> 1 [] c = "2" -> 2 [] c = "3" -> 3
          [] c = "4" -> 4 [] c = "5" -> 5 [] c = "6" -> 6 [] c = "7" -> 7
          [] c = "8" -> 8 [] c = "9" -> 9 ]

RECURSIVE ScanFloat(_, _, _)
\* The digit loop of strconv.ParseFloat over the characters cs from index i:
\* st = [m, e, digits, dot, ok]. It stops with ok = FALSE at a second '.',
\* at any character that is no digit, or at the end when no digit was read.
ScanFloat(cs, i, st) ==
    IF i > Len(cs) THEN [st EXCEPT !.ok = st.digits > 0]
    ELSE IF cs[i] \in DOMAIN DigitVal
      THEN ScanFloat(cs, i + 1,
             [st EXCEPT !.m = st.m * 10 + DigitVal[cs[i]],
                        !.e = IF st.dot THEN st.e - 1 ELSE st.e,
                        !.digits = st.digits + 1])
    ELSE IF cs[i] = "." /\ ~st.dot
      THEN ScanFloat(cs, i + 1, [st EXCEPT !.dot = TRUE])
    ELSE [st EXCEPT !.ok = FALSE]

\* What ParseFloat returns after the scan st of a text, negative or not.
ParseResult(neg, st) ==
    IF st.ok
      THEN [value |-> Norm(IF neg THEN 0 - st.m ELSE st.m, st.e), err |-> FALSE]
      ELSE [value |-> Norm(0, 0), err |-> TRUE]

\* ParseFloat over the characters cs: the sign, then the digit loop.
ParseChars(cs) ==
    ParseResult(Len(cs) > 0 /\ cs[1] = "-",
                ScanFloat(cs, IF Len(cs) > 0 /\ cs[1] \in {"+", "-"} THEN 2 ELSE 1,
                          [m |-> 0, e |-> 0, digits |-> 0, dot |-> FALSE, ok |-> TRUE]))

\* strconv.ParseFloat(s, 64) for decimal texts: [value, err]. An optional
\* sign, digits with at most one '.', at least one digit, nothing after.
\* (Exponents, hexadecimal forms, "inf" and "nan" need characters that no
\* text of TextChars has.)
ParseFloat(s) == ParseChars(TextChars[s])

DigitStr == << "0", "1", "2", "3", "4", "5", "6", "7", "8", "9" >>

RECURSIVE FormatNat(_)
FormatNat(n) ==
    IF n < 10 THEN DigitStr[n + 1]
    ELSE FormatNat(n \div 10) \o DigitStr[(n % 10) + 1]

\* strconv.FormatInt(v, 10).
FormatInt(v) == IF v < 0 THEN "-" \o FormatNat(0 - v) ELSE FormatNat(v)

\* --------------------------------------------------------------- cells

\* The dynamic types a scanned cell can have: int64, float64, time.Time,
\* []byte, string, nil, and bool standing for every other type.
Kinds == {"int64", "float64", "time", "bytes", "string", "nil", "bool"}

\* A cell: kind, and the value in the field of its kind: i for an int64 (and
\* the Unix seconds of a time.Time, 0 or 1 for a bool), f for a float64, s
\* for the text of a string or of a []byte; the other fields are blank.
Cell(k, i, f, s) == [kind |-> k, i |-> i, f |-> f, s |-> s]
NilCell == Cell("nil", 0, NaN, "")

\* What dbToFloat64 returns for a text, given the result r of ParseFloat.
ParsedOrNaN(r) ==
    IF r.err THEN [value |-> NaN, ok |-> FALSE]
             ELSE [value |-> r.value, ok |-> TRUE]

\* A dbToFloat64 that does what its doc comment says of []byte: no parsing.
dbToFloat64_BytesFail(t) ==
    CASE t.kind = "int64"   -> [value |-> FromInt(t.i), ok |-> TRUE]
      [] t.kind = "float64" -> [value |-> t.f, ok |-> TRUE]
      [] t.kind = "time"    -> [value |-> FromInt(t.i), ok |-> TRUE]
      [] t.kind = "string"  -> ParsedOrNaN(ParseFloat(t.s))
      [] t.kind = "nil"     -> [value |-> NaN, ok |-> TRUE]
      [] OTHER -> [value |-> NaN, ok |-> FALSE]

\* dbToFloat64(t): [value, ok].
dbToFloat64(t) ==
    CASE t.kind = "int64"   -> [value |-> FromInt(t.i), ok |-> TRUE]
      [] t.kind = "float64" -> [value |-> t.f, ok |-> TRUE]
      [] t.kind = "time"    -> [value |-> FromInt(t.i), ok |-> TRUE]
      [] t.kind = "bytes"   -> ParsedOrNaN(ParseFloat(t.s))
      [] t.kind = "string"  -> ParsedOrNaN(ParseFloat(t.s))
      [] t.kind = "nil"     -> [value |-> NaN, ok |-> TRUE]
      [] OTHER -> [value |-> NaN, ok |-> FALSE]

\* -------------------------------------------------------------- schema

\* A ColumnMapping: usage and promMetricName (the description is omitted:
\* nothing the model computes reads it).
CM(usage, promMetricName) == [usage |-> usage, promMetricName |-> promMetricName]

metricKVMaps ==
    [ config |->
        [ listen_backlog |-> CM("COUNTER", ""),
          max_client_conn |-> CM("GAUGE", ""),
          default_pool_size |-> CM("GAUGE", ""),
          min_pool_size |-> CM("GAUGE", ""),
          reserve_pool_size |-> CM("GAUGE", ""),
          reserve_pool_timeout |-> CM("GAUGE", "reserve_pool_timeout_seconds"),
          max_db_connections |-> CM("GAUGE", ""),
          max_user_connections |-> CM("GAUGE", ""),
          autodb_idle_timeout |-> CM("GAUGE", "autodb_idle_timeout_seconds"),
          server_reset_query_always |-> CM("GAUGE", ""),
          server_check_delay |-> CM("GAUGE", "server_check_delay_seconds"),
          query_timeout |-> CM("GAUGE", "query_timeout_seconds"),
          query_wait_timeout |-> CM("GAUGE", "query_wait_timeout_seconds"),
          client_idle_timeout |-> CM("GAUGE", "client_idle_timeout_seconds"),
          client_login_timeout |-> CM("GAUGE", "client_login_timeout_seconds"),
          idle_transaction_timeout |-> CM("GAUGE", "idle_transaction_timeout_seconds"),
          server_lifetime |-> CM("GAUGE", "server_lifetime_seconds"),
          server_idle_timeout |-> CM("GAUGE", "server_idle_timeout_seconds"),
          server_connect_timeout |-> CM("GAUGE", "server_connect_timeout_seconds"),
          server_login_retry |-> CM("GAUGE", "server_login_retry_seconds"),
          server_round_robin |-> CM("GAUGE", ""),
          suspend_timeout |-> CM("GAUGE", "suspend_timeout_seconds"),
          disable_pqexec |-> CM("COUNTER", ""),
          dns_max_ttl |-> CM("GAUGE", ""),
          dns_nxdomain_ttl |-> CM("GAUGE", ""),
          dns_zone_check_period |-> CM("GAUGE", "dns_zone_check_period_seconds"),
          max_packet_size |-> CM("GAUGE", "max_packet_size_bytes"),
          pkt_buf |-> CM("COUNTER", "pkt_buf_bytes"),
          sbuf_loopcnt |-> CM("GAUGE", "sbuf_loopcnt"),
          tcp_defer_accept |-> CM("GAUGE", ""),
          tcp_socket_buffer |-> CM("GAUGE", "tcp_socket_buffer_bytes"),
          tcpkeepalive |-> CM("GAUGE", ""),
          tcp_keepcnt |-> CM("GAUGE", ""),
          tcp_keepidle |-> CM("GAUGE", ""),
          tcp_keepintvl |-> CM("GAUGE", ""),
          verbose |-> CM("GAUGE", ""),
          stats_period |-> CM("GAUGE", "stats_period_seconds"),
          log_connections |-> CM("GAUGE", ""),
          log_disconnections |-> CM("GAUGE", ""),
          log_pooler_errors |-> CM("GAUGE", ""),
          application_name_add_host |-> CM("GAUGE", "") ] ]

metricRowMaps ==
    [ databases |->
        [ name |-> CM("LABEL", ""),
          host |-> CM("LABEL", ""),
          port |-> CM("LABEL", ""),
          database |-> CM("LABEL", ""),
          force_user |-> CM("LABEL", ""),
          pool_size |-> CM("GAUGE", ""),
          reserve_pool |-> CM("GAUGE", "reserve_pool_size"),
          pool_mode |-> CM("LABEL", ""),
          max_connections |-> CM("GAUGE", ""),
          current_connections |-> CM("GAUGE", ""),
          paused |-> CM("GAUGE", ""),
          disabled |-> CM("GAUGE", "") ],
      lists |->
        [ databases |-> CM("GAUGE", ""),
          users |-> CM("GAUGE", ""),
          pools |-> CM("GAUGE", ""),
          free_clients |-> CM("GAUGE", ""),
          used_clients |-> CM("GAUGE", ""),
          login_clients |-> CM("GAUGE", ""),
          free_servers |-> CM("GAUGE", ""),
          used_servers |-> CM("GAUGE", "") ],
      pools |->
        [ database |-> CM("LABEL", ""),
          user |-> CM("LABEL", ""),
          cl_active |-> CM("GAUGE", ""),
          cl_waiting |-> CM("GAUGE", ""),
          sv_active |-> CM("GAUGE", ""),
          sv_idle |-> CM("GAUGE", ""),
          sv_used |-> CM("GAUGE", ""),
          sv_tested |-> CM("GAUGE", ""),
          sv_login |-> CM("GAUGE", ""),
          maxwait |-> CM("GAUGE", "maxwait_seconds"),
          pool_mode |-> CM("LABEL", "") ],
      stats |->
        [ database |-> CM("LABEL", ""),
          avg_query_count |-> CM("GAUGE", "avg_queries_per_second"),
          avg_query |-> CM("GAUGE_MS", "avg_query_duration_microseconds"),
          avg_query_time |-> CM("GAUGE_MS", "avg_query_time_microseconds"),
          avg_recv |-> CM("GAUGE", "avg_data_recv_bytes_per_second"),
          avg_req |-> CM("GAUGE", ""),
          avg_sent |-> CM("GAUGE", ""),
          avg_wait_time |-> CM("GAUGE_MS", "avg_wait_time_microseconds"),
          avg_xact_count |-> CM("GAUGE", ""),
          avg_xact_time |-> CM("GAUGE_MS", "avg_xact_time_microseconds"),
          bytes_received_per_second |-> CM("GAUGE", "bytes_received_per_second_total"),
          bytes_sent_per_second |-> CM("GAUGE", "bytes_sent_per_second_total"),
          total_query_count |-> CM("GAUGE", "query_count_total"),
          total_query_time |-> CM("GAUGE_MS", "query_time_microseconds_total"),
          total_received |-> CM("GAUGE", "received_bytes_total"),
          total_requests |-> CM("GAUGE", "requests_total"),
          total_sent |-> CM("GAUGE", "sent_bytes_total"),
          total_wait_time |-> CM("GAUGE_MS", "wait_time_microseconds_total"),
          total_xact_count |-> CM("GAUGE", "xact_count_total"),
          total_xact_time |-> CM("GAUGE_MS", "xact_time_microseconds_total") ] ]

\* A table restricted to the namespaces nss and the columns cols[ns].
Restrict(table, nss, cols) ==
    [ ns \in nss |-> [ c \in cols[ns] |-> table[ns][c] ] ]

\* The part of the schema tables the exporter of the orchestrator
\* specification is built from: a row namespace and the key-value namespace.
ModelColumns ==
    [ pools  |-> {"database", "cl_active", "maxwait"},
      config |-> {"listen_backlog", "max_client_conn"} ]

ModelRowMaps == Restrict(metricRowMaps, {"pools"}, ModelColumns)

ModelKVMaps == Restrict(metricKVMaps, {"config"}, ModelColumns)

\* The part the converter specifications build their namespace maps from:
\* row namespaces with one and with two label columns and with columns of
\* every usage and of both naming forms, and the key-value namespace.
ConvColumns ==
    [ pools  |-> {"database", "user", "cl_active", "maxwait"},
      stats  |-> {"database", "avg_query", "total_requests"},
      config |-> {"listen_backlog", "max_client_conn"} ]

ConvRowMaps == Restrict(metricRowMaps, {"pools", "stats"}, ConvColumns)

ConvKVMaps == Restrict(metricKVMaps, {"config"}, ConvColumns)

\* const namespace = "pgbouncer"
namespace == "pgbouncer"

\* ------------------------------------------------------ makeMetricMaps

Range(f) == { f[x] : x \in DOMAIN f }

\* Every order in which a Go map iteration can visit the set S.
Orders(S) == { q \in [1 .. Cardinality(S) -> S] : Range(q) = S }

\* prometheus.NewDesc(fqName, help, variableLabels, nil).
NewDesc(fqName, variableLabels) ==
    [fqName |-> fqName, variableLabels |-> variableLabels]

\* A convert that names every descriptor after promMetricName, also when
\* the column has none.
DescOf_AlwaysExportedName(metricNamespace, ns, columnName, columnMapping, labels) ==
    NewDesc(metricNamespace \o "_" \o ns \o "_" \o columnMapping.promMetricName, labels)

\* The descriptor built for one column in convert.
DescOf(metricNamespace, ns, columnName, columnMapping, labels) ==
    IF columnMapping.promMetricName # ""
      THEN NewDesc(metricNamespace \o "_" \o ns \o "_" \o columnMapping.promMetricName,
                   labels)
      ELSE NewDesc(metricNamespace \o "_" \o ns \o "_" \o columnName, labels)

\* A makeMetricMaps that gives a GAUGE_MS column the multiplier 1.
MetricMapOf_NoScale(usage, desc) ==
    CASE usage = "COUNTER"  ->
           [vtype |-> "CounterValue", desc |-> desc, multiplier |-> Norm(1, 0)]
      [] usage = "GAUGE"    ->
           [vtype |-> "GaugeValue", desc |-> desc, multiplier |-> Norm(1, 0)]
      [] usage = "GAUGE_MS" ->
           [vtype |-> "GaugeValue", desc |-> desc, multiplier |-> Norm(1, 0)]

\* The MetricMap entry of a COUNTER, GAUGE or GAUGE_MS column.
MetricMapOf(usage, desc) ==
    CASE usage = "COUNTER"  ->
           [vtype |-> "CounterValue", desc |-> desc, multiplier |-> Norm(1, 0)]
      [] usage = "GAUGE"    ->
           [vtype |-> "GaugeValue", desc |-> desc, multiplier |-> Norm(1, 0)]
      [] usage = "GAUGE_MS" ->
           [vtype |-> "GaugeValue", desc |-> desc, multiplier |-> Norm(1, 0 - 6)]

\* The closure convert of makeMetricMaps, for one order of the label columns.
convert(metricNamespace, ns, mappings, converter, labels) ==
    [ namespace      |-> ns,
      columnMappings |->
        [ c \in { c \in DOMAIN mappings : mappings[c].usage # "LABEL" } |->
            MetricMapOf(mappings[c].usage,
                        DescOf(metricNamespace, ns, c, mappings[c], labels)) ],
      labels         |-> labels,
      rowFunc        |-> converter ]

LabelColumns(mappings) == { c \in DOMAIN mappings : mappings[c].usage = "LABEL" }

\* makeMetricMaps over the given tables: the set of metricMap values it can
\* return. Go visits a map in an unspecified order, so the order of the label
\* columns of a namespace and the order of the namespaces of one table are
\* free; the row namespaces always come before the key-value namespaces.
makeMetricMapsOf(metricNamespace, rowMaps, kvMaps) ==
    { [ i \in 1 .. (Len(ro) + Len(ko)) |->
          IF i <= Len(ro)
            THEN convert(metricNamespace, ro[i], rowMaps[ro[i]],
                         "metricRowConverter", lab[ro[i]])
            ELSE convert(metricNamespace, ko[i - Len(ro)], kvMaps[ko[i - Len(ro)]],
                         "metricKVConverter", lab[ko[i - Len(ro)]]) ] :
        ro \in Orders(DOMAIN rowMaps),
        ko \in Orders(DOMAIN kvMaps),
        lab \in { l \in [ (DOMAIN rowMaps) \cup (DOMAIN kvMaps) ->
                            UNION { Orders(LabelColumns(rowMaps[n])) : n \in DOMAIN rowMaps }
                            \cup UNION { Orders(LabelColumns(kvMaps[n])) : n \in DOMAIN kvMaps } ] :
                    \A n \in DOMAIN l :
                        l[n] \in Orders(LabelColumns(IF n \in DOMAIN rowMaps
                                                       THEN rowMaps[n] ELSE kvMaps[n])) } }

makeMetricMaps(metricNamespace) ==
    makeMetricMapsOf(metricNamespace, ModelRowMaps, ModelKVMaps)

\* ---------------------------------------------------------- converters

\* What a converter or Query hands back: the metrics sent on ch (in order),
\* the non-fatal errors, the fatal error ("" is nil) and whether the call
\* ended in a panic (the metrics sent before the panic stay sent).
Out(metrics, nonfatal, err, panicked) ==
    [metrics |-> metrics, nonfatal |-> nonfatal, err |-> err, panicked |-> panicked]

\* result.ColumnIdx as Query builds it: the index (from 0) of the last column
\* of each name.
ColumnIdxOf(ColumnNames) ==
    [ n \in Range(ColumnNames) |->
        (CHOOSE i \in DOMAIN ColumnNames :
            /\ ColumnNames[i] = n
            /\ \A j \in DOMAIN ColumnNames : ColumnNames[j] = n => j <= i) - 1 ]

\* result.ColumnIdx[name]: a Go map answers 0 for a key it does not hold.
IdxLookup(result, name) ==
    IF name \in DOMAIN result.ColumnIdx THEN result.ColumnIdx[name] ELSE 0

\* prometheus.MustNewConstMetric: panics unless there is one label value per
\* variable label of the descriptor.
MustNewConstMetric(desc, vtype, value, labelValues) ==
    [ panicked |-> Len(labelValues) # Len(desc.variableLabels),
      metric   |-> [desc |-> desc, vtype |-> vtype, value |-> value,
                    labelValues |-> labelValues] ]

RECURSIVE CollectLabels(_, _, _, _)
\* The label loop of metricRowConverter from label i on: labelValues so far
\* in acc. Indexing ColumnData panics when the row has no column at all.
CollectLabels(m, result, i, acc) ==
    IF i > Len(m.labels) THEN [labelValues |-> acc, panicked |-> FALSE]
    ELSE LET idx == IdxLookup(result, m.labels[i])
         IN  IF idx + 1 > Len(result.ColumnData)
               THEN [labelValues |-> acc, panicked |-> TRUE]
               ELSE LET val == result.ColumnData[idx + 1]
                    IN  CASE val.kind = "nil" ->
                               CollectLabels(m, result, i + 1, Append(acc, ""))
                          [] val.kind = "string" ->
                               CollectLabels(m, result, i + 1, Append(acc, val.s))
                          [] val.kind = "int64" ->
                               CollectLabels(m, result, i + 1,
                                             Append(acc, FormatInt(val.i)))
                          [] OTHER ->
                               CollectLabels(m, result, i + 1, acc)

ParseColumnError(ns, columnName) ==
    [msg |-> "Unexpected error parsing column: ", namespace |-> ns, key |-> columnName]

\* ch <- n, for the result n of MustNewConstMetric: a panic ends the call.
SendMetric(n, acc) ==
    IF n.panicked THEN [acc EXCEPT !.panicked = TRUE]
    ELSE [acc EXCEPT !.metrics = Append(@, n.metric)]

\* A column with a compiled metric, its cell coerced to c: a non-fatal error
\* and on to the next column, or the metric is made and sent.
EmitColumn(metricMapping, ns, columnName, c, labelValues, acc) ==
    IF ~c.ok
      THEN [acc EXCEPT !.nonfatal = Append(@, ParseColumnError(ns, columnName))]
      ELSE SendMetric(MustNewConstMetric(metricMapping.desc, metricMapping.vtype,
                          FMul(c.value, metricMapping.multiplier), labelValues),
                      acc)

\* One turn of the column loop of metricRowConverter, for the column idx.
ConvertColumn(m, result, labelValues, idx, acc) ==
    IF result.ColumnNames[idx] \in DOMAIN m.columnMappings
      THEN EmitColumn(m.columnMappings[result.ColumnNames[idx]], m.namespace,
                      result.ColumnNames[idx], dbToFloat64(result.ColumnData[idx]),
                      labelValues, acc)
      ELSE acc

RECURSIVE ConvertColumns(_, _, _, _, _)
\* The column loop of metricRowConverter from column idx on; a panic ends it.
ConvertColumns(m, result, labelValues, idx, acc) ==
    IF acc.panicked \/ idx > Len(result.ColumnNames) THEN acc
    ELSE ConvertColumns(m, result, labelValues, idx + 1,
                        ConvertColumn(m, result, labelValues, idx, acc))

\* metricRowConverter after its label loop, which left l.
ConvertAfterLabels(m, result, l) ==
    IF l.panicked THEN Out(<< >>, << >>, "", TRUE)
    ELSE ConvertColumns(m, result, l.labelValues, 1, Out(<< >>, << >>, "", FALSE))

\* metricRowConverter(m, result, ch).
metricRowConverter(m, result) ==
    ConvertAfterLabels(m, result, CollectLabels(m, result, 1, << >>))

KVValueError(ns, key) ==
    [msg |-> "Unexpected error KV value: ", namespace |-> ns, key |-> key]

\* A metricKVConverter without the return after the non-fatal error: the
\* metric of a value that did not coerce is sent as well.
EmitKV_NoReturn(metricMapping, ns, key, c) ==
    SendMetric(MustNewConstMetric(metricMapping.desc, metricMapping.vtype,
                   FMul(c.value, metricMapping.multiplier), << >>),
               Out(<< >>, IF c.ok THEN << >> ELSE << KVValueError(ns, key) >>, "", FALSE))

\* A key with a compiled metric, its value cell coerced to c: a non-fatal
\* error, or the metric is made and sent.
EmitKV(metricMapping, ns, key, c) ==
    IF ~c.ok
      THEN Out(<< >>, << KVValueError(ns, key) >>, "", FALSE)
      ELSE SendMetric(MustNewConstMetric(metricMapping.desc, metricMapping.vtype,
                          FMul(c.value, metricMapping.multiplier), << >>),
                      Out(<< >>, << >>, "", FALSE))

\* metricKVConverter(m, result, ch).
metricKVConverter(m, result) ==
    IF Len(result.ColumnData) < 2
      THEN Out(<< >>, << >>, "not enough columns", FALSE)
    ELSE IF result.ColumnData[1].kind # "string"
      THEN Out(<< >>, << >>, "key field isn't string", FALSE)
    ELSE IF result.ColumnData[1].s \in DOMAIN m.columnMappings
      THEN EmitKV(m.columnMappings[result.ColumnData[1].s], m.namespace,
                  result.ColumnData[1].s, dbToFloat64(result.ColumnData[2]))
    ELSE Out(<< >>, << >>, "", FALSE)

\* m.rowFunc(m, &result, ch).
rowFunc(m, result) ==
    IF m.rowFunc = "metricRowConverter" THEN metricRowConverter(m, result)
    ELSE metricKVConverter(m, result)

\* --------------------------------------------------------------- Query

\* What the proxied service answers to one status query:
\*   queryErr    db.Query fails,
\*   columnsErr  rows.Columns fails,
\*   ColumnNames the column names of the result,
\*   rows        the rows rows.Next delivers, each [scanErr, data] with one
\*               cell per column,
\*   rowsErr     rows.Err reports an error after the last delivered row.
Answer(queryErr, columnsErr, ColumnNames, rows, rowsErr) ==
    [queryErr |-> queryErr, columnsErr |-> columnsErr, ColumnNames |-> ColumnNames,
     rows |-> rows, rowsErr |-> rowsErr]

RowsError == [msg |-> "failed to consume all rows due to: ", namespace |-> "", key |-> ""]

\* The rowResult Query builds for a row of cells under the column names.
RowResult(ColumnNames, ColumnData) ==
    [ColumnNames |-> ColumnNames,
     ColumnIdx   |-> ColumnIdxOf(ColumnNames),
     ColumnData  |-> ColumnData]

\* A Query whose return on a row's fatal error hands back the row's own
\* result only: what the rows before have sent and collected is dropped.
AfterRow_DropsEarlier(acc, r) ==
    IF r.err # "" THEN Out(r.metrics, r.nonfatal, r.err, r.panicked)
    ELSE Out(acc.metrics \o r.metrics, acc.nonfatal \o r.nonfatal, r.err, r.panicked)

\* Query after a row: the metrics sent and the non-fatal errors of the row
\* are added to those of the rows before; err and panicked are the row's.
AfterRow(acc, r) ==
    Out(acc.metrics \o r.metrics, acc.nonfatal \o r.nonfatal, r.err, r.panicked)

RECURSIVE RowsLoop(_, _, _, _)
\* The rows.Next loop of Query from row i on, and what follows it. A fatal
\* error or a panic of the row before ends the call.
RowsLoop(m, rs, i, acc) ==
    IF acc.panicked \/ acc.err # "" THEN acc
    ELSE IF i > Len(rs.rows)
      THEN IF rs.rowsErr
             THEN [acc EXCEPT !.nonfatal = Append(@, RowsError)]
             ELSE acc
    ELSE IF rs.rows[i].scanErr
      THEN Out(acc.metrics, << >>, "Error retrieving rows:", FALSE)
    ELSE RowsLoop(m, rs, i + 1,
                  AfterRow(acc, rowFunc(m, RowResult(rs.ColumnNames, rs.rows[i].data))))

\* MetricMapFromNamespace.Query(ch, db), given the service's answer rs.
Query(m, rs) ==
    IF rs.queryErr THEN Out(<< >>, << >>, "Error running query on database: ", FALSE)
    ELSE IF rs.columnsErr
      THEN Out(<< >>, << >>, "Error retrieving column list for: ", FALSE)
    ELSE RowsLoop(m, rs, 1, Out(<< >>, << >>, "", FALSE))

\* ------------------------------------------- answers of the proxied service

IntCell(v)   == Cell("int64", v, NaN, "")
StrCell(v)   == Cell("string", 0, NaN, v)
BytesCell(v) == Cell("bytes", 0, NaN, v)
FloatCell(v) == Cell("float64", 0, v, "")
TimeCell(v)  == Cell("time", v, NaN, "")
BoolCell(v)  == Cell("bool", v, NaN, "")

Row(data)    == [scanErr |-> FALSE, data |-> data]
Rows(c, rws) == Answer(FALSE, FALSE, c, rws, FALSE)
QueryFails   == Answer(TRUE, FALSE, << >>, << >>, FALSE)
ColumnsFail  == Answer(FALSE, TRUE, << >>, << >>, FALSE)

\* The answers the service gives to "SHOW <ns>;" in the orchestrator
\* specification: a clean result (with a column or a key the schema does not
\* know), a result with two cells that do not coerce, a failing query, a
\* failing column list, and a result that makes the converter stop (a label
\* cell of a kind metricRowConverter has no branch for; a key-value row of
\* one column).
ServiceAnswers ==
    [ pools |->
        { Rows(<< "database", "cl_active", "maxwait", "cl_cancel_req" >>,
               << Row(<< StrCell("db1"), IntCell(3), NilCell, IntCell(0) >>) >>),
          Rows(<< "database", "cl_active", "maxwait" >>,
               << Row(<< StrCell("db1"), StrCell("abc"), BoolCell(1) >>) >>),
          Rows(<< "database", "cl_active" >>,
               << Row(<< FloatCell(Norm(7, 0)), IntCell(3) >>) >>),
          QueryFails, ColumnsFail },
      config |->
        { Rows(<< "key", "value", "changeable" >>,
               << Row(<< StrCell("max_client_conn"), StrCell("100"), StrCell("yes") >>),
                  Row(<< StrCell("unix_socket_dir"), StrCell("abc"), StrCell("no") >>) >>),
          Rows(<< "key" >>, << Row(<< StrCell("max_client_conn") >>) >>) } ]

\* ----------------------------------------------------------- the exporter

\* Goroutines: 0 is main (prometheus.MustRegister runs Describe, then
\* http.ListenAndServe serves); 1 .. NumCollectors are the goroutines in
\* which the registry runs Collect for concurrent HTTP scrape requests.
Main       == 0
Collectors == 1 .. NumCollectors
Procs      == {Main} \cup Collectors
NoOne      == 0 - 1

VARIABLES
    metricMap,      \* e.metricMap, fixed by NewExporter
    up,             \* e.up
    error,          \* e.error (last_scrape_error)
    duration,       \* e.duration: the goroutine whose poll last set it (NoOne: never set)
    totalScrapes,   \* e.totalScrapes
    readers,        \* e.mutex: the number of RLock holders
    conn,           \* the one connection of e.db: the goroutine that has it, or NoOne
    exited,         \* "" while the process runs, "fatal" after log.Fatal, "panic" after a panic
    pc,             \* where each goroutine is
    idx,            \* the index in e.metricMap of the namespace a poll is at
    rows,           \* the open result set of a goroutine (the service's answer)
    ret,            \* what the last Query of a goroutine returned
    ch,             \* the metrics a Collect has sent on its channel so far
    described,      \* the descriptors Describe has sent
    hist,           \* history of the current poll of each goroutine
    arg,            \* the input of the function under study (function specifications)
    res             \* its result, once applied

vars == << arg, res, metricMap, up, error, duration, totalScrapes, readers, conn, exited,
           pc, idx, rows, ret, ch, described, hist >>

HealthDesc(name) == NewDesc(namespace \o "_" \o name, << >>)
DurationDesc     == HealthDesc("last_scrape_duration_seconds")
UpDesc           == HealthDesc("up")
TotalScrapesDesc == HealthDesc("scrapes_total")
ErrorDesc        == HealthDesc("last_scrape_error")
HealthDescs      == {DurationDesc, UpDesc, TotalScrapesDesc, ErrorDesc}

\* A health metric as it travels on the channel: ch <- e.up sends the gauge
\* itself, not a copy of its value; the receiver reads the value it has when
\* it writes the response.
HealthMetric(desc) ==
    [desc |-> desc, vtype |-> "live", value |-> NaN, labelValues |-> << >>]

NoAnswer == Answer(FALSE, FALSE, << >>, << >>, FALSE)
NoReturn == Out(<< >>, << >>, "", FALSE)

\* History of the current poll of a goroutine: the outcome of the liveness
\* probe, the answers its namespace queries got (in order), whether another
\* poll ran at any moment of this one; and the number of polls the goroutine
\* has finished.
NewHist ==
    [probe |-> "none", answers |-> << >>, overlapped |-> FALSE, polls |-> 0]

\* The positions at which a goroutine is inside scrape.
ScrapePcs ==
    {"RLock", "errorSet0", "totalScrapesInc", "probe", "probeFailError",
     "probeFailUp", "probeClose", "upSet1", "queryOpen", "queryRows",
     "queryReturned", "RUnlock", "durationSet"}

\* The positions at which a goroutine holds the read lock of e.mutex.
GuardPcs ==
    ScrapePcs \ {"RLock", "durationSet"}

\* The positions of a poll after e.totalScrapes.Inc().
AfterIncPcs ==
    ScrapePcs \ {"RLock", "errorSet0", "totalScrapesInc"}

\* The exporter as NewExporter leaves it, no goroutine in Collect yet.
Fresh ==
    /\ up = 0
    /\ error = 0
    /\ duration = NoOne
    /\ totalScrapes = 0
    /\ readers = 0
    /\ conn = NoOne
    /\ exited = ""
    /\ pc = [p \in Procs |-> IF p = Main THEN "register" ELSE "wait"]
    /\ idx = [p \in Procs |-> 0]
    /\ rows = [p \in Procs |-> NoAnswer]
    /\ ret = [p \in Procs |-> NoReturn]
    /\ ch = [p \in Procs |-> << >>]
    /\ described = {}
    /\ hist = [p \in Procs |-> NewHist]

Init ==
    /\ metricMap \in makeMetricMaps(namespace)
    /\ Fresh
    /\ arg = NilCell
    /\ res = NilCell

RECURSIVE SumOver(_, _)
\* The sum of f[x] over the finite set S.
SumOver(f, S) ==
    IF S = {} THEN 0
    ELSE LET x == CHOOSE y \in S : TRUE
         IN  f[x] + SumOver(f, S \ {x})

\* The polls begun so far: the finished ones and the running ones.
Started ==
    SumOver([p \in Procs |->
               hist[p].polls + (IF pc[p] \in ScrapePcs \cup {"panicked"} THEN 1 ELSE 0)],
            Procs)

\* hist with the overlap of polls recorded, for the positions pcN reached.
Overlap(pcN, h) ==
    [ p \in Procs |->
        IF pcN[p] \in ScrapePcs /\ \E q \in Procs \ {p} : pcN[q] \in ScrapePcs
          THEN [h[p] EXCEPT !.overlapped = TRUE]
          ELSE h[p] ]

\* The goroutine p moves to position to; its history becomes h.
Goto(p, to, h) ==
    LET pcN == [pc EXCEPT ![p] = to]
    IN  /\ pc' = pcN
        /\ hist' = Overlap(pcN, [hist EXCEPT ![p] = h])

\* A Describe whose goroutine drains metricCh without forwarding m.Desc().
Send_NoForward(p, metrics) ==
    /\ ch' = [ch EXCEPT ![p] = @ \o metrics]
    /\ described' = described

\* ch <- metrics: the metrics are sent on the channel of p's Collect. In
\* Describe the receiving goroutine forwards m.Desc() of each of them.
Send(p, metrics) ==
    /\ ch' = [ch EXCEPT ![p] = @ \o metrics]
    /\ described' = IF p = Main
                      THEN described \cup { metrics[k].desc : k \in DOMAIN metrics }
                      ELSE described

\* The position after namespace i of the loop over e.metricMap.
LoopPc(i) == IF i <= Len(metricMap) THEN "queryOpen" ELSE "RUnlock"

\* main: prometheus.MustRegister(exporter) calls Describe, which makes
\* metricCh, starts the forwarding goroutine and calls e.Collect(metricCh).
DescribeBegin ==
    /\ exited = "" /\ pc[Main] = "register"
    /\ Started < MaxScrapes
    /\ Goto(Main, "RLock", hist[Main])
    /\ UNCHANGED << arg, res, metricMap, up, error, duration, totalScrapes, readers, conn,
                    exited, idx, rows, ret, ch, described >>

\* Describe returns once Collect has returned and the forwarder is done;
\* main goes on to http.ListenAndServe.
DescribeEnd ==
    /\ exited = "" /\ pc[Main] = "collected"
    /\ Goto(Main, "serving", [NewHist EXCEPT !.polls = hist[Main].polls])
    /\ ch' = [ch EXCEPT ![Main] = << >>]
    /\ UNCHANGED << arg, res, metricMap, up, error, duration, totalScrapes, readers, conn,
                    exited, idx, rows, ret, described >>

\* An HTTP scrape request: the registry calls e.Collect(ch), which calls
\* e.scrape(ch). The goroutines of the requests are interchangeable: a new
\* request takes the free goroutine of the lowest number.
CollectBegin(p) ==
    /\ exited = "" /\ pc[p] = "wait" /\ pc[Main] = "serving"
    /\ \A q \in Collectors : q < p => pc[q] # "wait"
    /\ Started < MaxScrapes
    /\ Goto(p, "RLock", hist[p])
    /\ UNCHANGED << arg, res, metricMap, up, error, duration, totalScrapes, readers, conn,
                    exited, idx, rows, ret, ch, described >>

\* e.mutex.RLock(): no goroutine ever takes the write lock, so it never waits.
RLock(p) ==
    /\ exited = "" /\ pc[p] = "RLock"
    /\ readers' = readers + 1
    /\ Goto(p, "errorSet0", hist[p])
    /\ UNCHANGED << arg, res, metricMap, up, error, duration, totalScrapes, conn, exited,
                    idx, rows, ret, ch, described >>

\* A scrape that does not reset e.error when it starts.
ErrorSet0_NoReset(p) ==
    /\ exited = "" /\ pc[p] = "errorSet0"
    /\ error' = error
    /\ Goto(p, "totalScrapesInc", hist[p])
    /\ UNCHANGED << arg, res, metricMap, up, duration, totalScrapes, readers, conn, exited,
                    idx, rows, ret, ch, described >>

\* e.error.Set(0)
ErrorSet0(p) ==
    /\ exited = "" /\ pc[p] = "errorSet0"
    /\ error' = 0
    /\ Goto(p, "totalScrapesInc", hist[p])
    /\ UNCHANGED << arg, res, metricMap, up, duration, totalScrapes, readers, conn, exited,
                    idx, rows, ret, ch, described >>

\* A scrape that does not count the poll Describe runs.
TotalScrapesInc_NotForDescribe(p) ==
    /\ exited = "" /\ pc[p] = "totalScrapesInc"
    /\ totalScrapes' = IF p = Main THEN totalScrapes ELSE totalScrapes + 1
    /\ Goto(p, "probe", hist[p])
    /\ UNCHANGED << arg, res, metricMap, up, error, duration, readers, conn, exited,
                    idx, rows, ret, ch, described >>

\* e.totalScrapes.Inc()
TotalScrapesInc(p) ==
    /\ exited = "" /\ pc[p] = "totalScrapesInc"
    /\ totalScrapes' = totalScrapes + 1
    /\ Goto(p, "probe", hist[p])
    /\ UNCHANGED << arg, res, metricMap, up, error, duration, readers, conn, exited,
                    idx, rows, ret, ch, described >>

\* rows, err := e.db.Query("SHOW STATS"): waits for the one connection of the
\* pool; the service answers or not. A failed query holds no connection.
Probe(p) ==
    /\ exited = "" /\ pc[p] = "probe"
    /\ conn = NoOne
    /\ \E ok \in BOOLEAN :
         IF ok
           THEN /\ conn' = p
                /\ Goto(p, "probeClose", [hist[p] EXCEPT !.probe = "ok"])
           ELSE /\ conn' = conn
                /\ Goto(p, "probeFailError", [hist[p] EXCEPT !.probe = "fail"])
    /\ UNCHANGED << arg, res, metricMap, up, error, duration, totalScrapes, readers, exited,
                    idx, rows, ret, ch, described >>

\* e.error.Set(1) after a failed probe.
ProbeFailError(p) ==
    /\ exited = "" /\ pc[p] = "probeFailError"
    /\ error' = 1
    /\ Goto(p, "probeFailUp", hist[p])
    /\ UNCHANGED << arg, res, metricMap, up, duration, totalScrapes, readers, conn, exited,
                    idx, rows, ret, ch, described >>

\* A scrape without the return after e.up.Set(0): it goes on to the loop
\* over e.metricMap.
ProbeFailUp_NoReturn(p) ==
    /\ exited = "" /\ pc[p] = "probeFailUp"
    /\ up' = 0
    /\ idx' = [idx EXCEPT ![p] = 1]
    /\ Goto(p, LoopPc(1), hist[p])
    /\ UNCHANGED << arg, res, metricMap, error, duration, totalScrapes, readers, conn, exited,
                    rows, ret, ch, described >>

\* e.up.Set(0); return
ProbeFailUp(p) ==
    /\ exited = "" /\ pc[p] = "probeFailUp"
    /\ up' = 0
    /\ Goto(p, "RUnlock", hist[p])
    /\ UNCHANGED << arg, res, metricMap, error, duration, totalScrapes, readers, conn, exited,
                    idx, rows, ret, ch, described >>

\* A scrape that does not close the rows of the probe: the connection stays
\* with the poll.
ProbeClose_NoClose(p) ==
    /\ exited = "" /\ pc[p] = "probeClose"
    /\ conn' = conn
    /\ Goto(p, "upSet1", hist[p])
    /\ UNCHANGED << arg, res, metricMap, up, error, duration, totalScrapes, readers, exited,
                    idx, rows, ret, ch, described >>

\* _ = rows.Close(): the connection goes back to the pool.
ProbeClose(p) ==
    /\ exited = "" /\ pc[p] = "probeClose"
    /\ conn' = NoOne
    /\ Goto(p, "upSet1", hist[p])
    /\ UNCHANGED << arg, res, metricMap, up, error, duration, totalScrapes, readers, exited,
                    idx, rows, ret, ch, described >>

\* e.up.Set(1), then the loop over e.metricMap starts.
UpSet1(p) ==
    /\ exited = "" /\ pc[p] = "upSet1"
    /\ up' = 1
    /\ idx' = [idx EXCEPT ![p] = 1]
    /\ Goto(p, LoopPc(1), hist[p])
    /\ UNCHANGED << arg, res, metricMap, error, duration, totalScrapes, readers, conn, exited,
                    rows, ret, ch, described >>

\* mapping.Query, up to rows, err := db.Query(query): waits for the
\* connection; the service answers with one of answers[namespace]. A failed
\* query returns at once.
QueryOpenWith(p, answers) ==
    /\ exited = "" /\ pc[p] = "queryOpen"
    /\ conn = NoOne
    /\ LET m == metricMap[idx[p]]
       IN  \E rs \in answers[m.namespace] :
             LET h == [hist[p] EXCEPT !.answers = Append(@, rs)]
             IN  IF rs.queryErr
                   THEN /\ ret' = [ret EXCEPT ![p] = Query(m, rs)]
                        /\ UNCHANGED << conn, rows >>
                        /\ Goto(p, "queryReturned", h)
                   ELSE /\ conn' = p
                        /\ rows' = [rows EXCEPT ![p] = rs]
                        /\ UNCHANGED ret
                        /\ Goto(p, "queryRows", h)
    /\ UNCHANGED << arg, res, metricMap, up, error, duration, totalScrapes, readers, exited,
                    idx, ch, described >>

\* The query of a namespace, answered with one of ServiceAnswers.
QueryOpen(p) == QueryOpenWith(p, ServiceAnswers)

\* mapping.Query ends with r: its metrics have been sent and rows.Close()
\* has run; it returns to scrape, or its panic unwinds scrape.
QueryEnds(p, r) ==
    /\ Send(p, r.metrics)
    /\ conn' = NoOne
    /\ rows' = [rows EXCEPT ![p] = NoAnswer]
    /\ IF r.panicked
         THEN /\ readers' = readers - 1
              /\ duration' = p
              /\ exited' = "panic"
              /\ UNCHANGED ret
              /\ Goto(p, "panicked", hist[p])
         ELSE /\ ret' = [ret EXCEPT ![p] = Out(<< >>, r.nonfatal, r.err, FALSE)]
              /\ UNCHANGED << readers, duration, exited >>
              /\ Goto(p, "queryReturned", hist[p])

\* The rest of mapping.Query: the column list, the loop over the rows with
\* the converter sending its metrics on ch, and the deferred rows.Close().
\* A panic of the converter unwinds scrape (rows.Close, RUnlock and
\* duration.Set are deferred) and, recovered nowhere, ends the process.
QueryRows(p) ==
    /\ exited = "" /\ pc[p] = "queryRows"
    /\ QueryEnds(p, Query(metricMap[idx[p]], rows[p]))
    /\ UNCHANGED << arg, res, metricMap, up, error, totalScrapes, idx >>

\* A scrape that goes on to the next namespace without adding the non-fatal
\* errors of the query to e.error.
QueryReturned_NoAdd(p) ==
    /\ exited = "" /\ pc[p] = "queryReturned"
    /\ IF ret[p].err # ""
         THEN /\ exited' = "fatal"
              /\ UNCHANGED << error, idx, ret, pc, hist >>
         ELSE /\ error' = error
              /\ idx' = [idx EXCEPT ![p] = @ + 1]
              /\ ret' = [ret EXCEPT ![p] = NoReturn]
              /\ UNCHANGED exited
              /\ Goto(p, LoopPc(idx[p] + 1), hist[p])
    /\ UNCHANGED << arg, res, metricMap, up, duration, totalScrapes, readers, conn, rows,
                    ch, described >>

\* Back in scrape: log.Fatal(err) on a fatal error (os.Exit, no deferred call
\* runs), else e.error.Add(float64(len(nonfatal))) and the next namespace.
QueryReturned(p) ==
    /\ exited = "" /\ pc[p] = "queryReturned"
    /\ IF ret[p].err # ""
         THEN /\ exited' = "fatal"
              /\ UNCHANGED << error, idx, ret, pc, hist >>
         ELSE /\ error' = error + Len(ret[p].nonfatal)
              /\ idx' = [idx EXCEPT ![p] = @ + 1]
              /\ ret' = [ret EXCEPT ![p] = NoReturn]
              /\ UNCHANGED exited
              /\ Goto(p, LoopPc(idx[p] + 1), hist[p])
    /\ UNCHANGED << arg, res, metricMap, up, duration, totalScrapes, readers, conn, rows,
                    ch, described >>

\* defer e.mutex.RUnlock()
RUnlock(p) ==
    /\ exited = "" /\ pc[p] = "RUnlock"
    /\ readers' = readers - 1
    /\ Goto(p, "durationSet", hist[p])
    /\ UNCHANGED << arg, res, metricMap, up, error, duration, totalScrapes, conn, exited,
                    idx, rows, ret, ch, described >>

\* The first deferred function, run last: e.duration.Set(...); scrape returns.
DurationSet(p) ==
    /\ exited = "" /\ pc[p] = "durationSet"
    /\ duration' = p
    /\ idx' = [idx EXCEPT ![p] = 0]
    /\ Goto(p, "sendHealth", [hist[p] EXCEPT !.polls = @ + 1])
    /\ UNCHANGED << arg, res, metricMap, up, error, totalScrapes, readers, conn, exited,
                    rows, ret, ch, described >>

\* Back in Collect: ch <- e.duration; ch <- e.up; ch <- e.totalScrapes;
\* ch <- e.error. Collect returns.
SendHealth(p) ==
    /\ exited = "" /\ pc[p] = "sendHealth"
    /\ Send(p, << HealthMetric(DurationDesc), HealthMetric(UpDesc),
                  HealthMetric(TotalScrapesDesc), HealthMetric(ErrorDesc) >>)
    /\ Goto(p, "collected", hist[p])
    /\ UNCHANGED << arg, res, metricMap, up, error, duration, totalScrapes, readers, conn,
                    exited, idx, rows, ret >>

\* The registry has taken the metrics of the request; the goroutine is free
\* for the next request.
CollectEnd(p) ==
    /\ exited = "" /\ pc[p] = "collected" /\ p \in Collectors
    /\ Goto(p, "wait", [NewHist EXCEPT !.polls = hist[p].polls])
    /\ ch' = [ch EXCEPT ![p] = << >>]
    /\ UNCHANGED << arg, res, metricMap, up, error, duration, totalScrapes, readers, conn,
                    exited, idx, rows, ret, described >>

Next ==
    \/ DescribeBegin
    \/ DescribeEnd
    \/ \E p \in Collectors : CollectBegin(p)
    \/ \E p \in Procs : RLock(p)
    \/ \E p \in Procs : ErrorSet0(p)
    \/ \E p \in Procs : TotalScrapesInc(p)
    \/ \E p \in Procs : Probe(p)
    \/ \E p \in Procs : ProbeFailError(p)
    \/ \E p \in Procs : ProbeFailUp(p)
    \/ \E p \in Procs : ProbeClose(p)
    \/ \E p \in Procs : UpSet1(p)
    \/ \E p \in Procs : QueryOpen(p)
    \/ \E p \in Procs : QueryRows(p)
    \/ \E p \in Procs : QueryReturned(p)
    \/ \E p \in Procs : RUnlock(p)
    \/ \E p \in Procs : DurationSet(p)
    \/ \E p \in Procs : SendHealth(p)
    \/ \E p \in Collectors : CollectEnd(p)

Spec == Init /\ [][Next]_vars

\* ------------------------------------- dbToFloat64 on its own (SpecCoerce)

\* The texts a string or []byte cell is drawn from.
Texts == DOMAIN TextChars

\* The float64 cells drawn: whole numbers and tenths.
Floats == { Norm(m, e) : m \in (0 - MaxInt) .. MaxInt, e \in {0 - 1, 0} }

\* The cells dbToFloat64 is applied to: every kind, several values of each.
CoerceInputs ==
    { IntCell(v) : v \in ((0 - MaxInt) .. MaxInt) \cup {2500000} }
    \cup { FloatCell(f) : f \in Floats }
    \cup { TimeCell(v) : v \in 0 .. MaxInt }
    \cup { StrCell(t) : t \in Texts }
    \cup { BytesCell(t) : t \in Texts }
    \cup { NilCell }
    \cup { BoolCell(v) : v \in {0, 1} }

InitCoerce ==
    /\ metricMap = << >>
    /\ Fresh
    /\ arg \in CoerceInputs
    /\ res = NilCell

\* value, ok := dbToFloat64(arg)
CoerceApply ==
    /\ res = NilCell
    /\ res' = dbToFloat64(arg)
    /\ UNCHANGED << arg, metricMap, up, error, duration, totalScrapes, readers, conn,
                    exited, pc, idx, rows, ret, ch, described, hist >>

NextCoerce == CoerceApply

SpecCoerce == InitCoerce /\ [][NextCoerce]_vars

\* ------------------------------ metricRowConverter on its own (SpecRow)

\* The namespace maps of the row strategy makeMetricMaps can build from the
\* converter tables (one for each order of the label columns).
RowNamespaceMaps ==
    { m \in UNION { Range(mm) :
                      mm \in makeMetricMapsOf(namespace, ConvRowMaps, ConvKVMaps) } :
        m.rowFunc = "metricRowConverter" }

\* The cells drawn for a label column: one of each kind.
LabelCells ==
    { StrCell("db1"), NilCell, IntCell(MaxInt), FloatCell(Norm(7, 0)),
      BytesCell("db1"), TimeCell(1), BoolCell(1) }

\* The cells drawn for a value column: cells that coerce (one of them null)
\* and cells that do not.
ValueCells ==
    { IntCell(MaxInt), StrCell("42.5"), BytesCell("2500000"), NilCell,
      StrCell("abc"), BoolCell(1) }

\* The column lists the service answers with, by namespace: the columns of
\* the schema followed by one the schema does not know; and a list that
\* begins with a value column and lacks the label column "user".
ResultColumns ==
    [ pools |-> { << "database", "user", "cl_active", "maxwait", "cl_cancel_req" >>,
                  << "cl_active", "database", "maxwait" >> },
      stats |-> { << "database", "avg_query", "total_requests", "total_server_assignment_count" >> } ]

\* The cells drawn for the column of a name under the namespace map m: a
\* label cell in a label column, a value cell in a column with a compiled
\* metric, an integer in a column the schema does not know.
CellsFor(m, columnName) ==
    IF columnName \in Range(m.labels) THEN LabelCells
    ELSE IF columnName \in DOMAIN m.columnMappings THEN ValueCells
    ELSE {IntCell(0)}

RECURSIVE RowsFrom(_, _, _)
\* The rows drawn for the columns k and up of a column list.
RowsFrom(m, ColumnNames, k) ==
    IF k > Len(ColumnNames) THEN { << >> }
    ELSE { << c >> \o rest : c \in CellsFor(m, ColumnNames[k]),
                             rest \in RowsFrom(m, ColumnNames, k + 1) }

\* The rows drawn under a column list for the namespace map m.
RowsUnder(m, ColumnNames) == RowsFrom(m, ColumnNames, 1)

RowInputs ==
    UNION { UNION { { [m |-> m, result |-> RowResult(cn, d)] : d \in RowsUnder(m, cn) } :
                      cn \in ResultColumns[m.namespace] } :
              m \in RowNamespaceMaps }

InitRow ==
    /\ metricMap = << >>
    /\ Fresh
    /\ arg \in RowInputs
    /\ res = NilCell

\* nonfatal, err := metricRowConverter(m, &result, ch)
RowApply ==
    /\ res = NilCell
    /\ res' = metricRowConverter(arg.m, arg.result)
    /\ UNCHANGED << arg, metricMap, up, error, duration, totalScrapes, readers, conn,
                    exited, pc, idx, rows, ret, ch, described, hist >>

NextRow == RowApply

SpecRow == InitRow /\ [][NextRow]_vars

\* ------------------------------- metricKVConverter on its own (SpecKV)

\* The namespace maps of the key-value strategy makeMetricMaps can build
\* from the converter tables.
KVNamespaceMaps ==
    { m \in UNION { Range(mm) :
                      mm \in makeMetricMapsOf(namespace, ConvRowMaps, ConvKVMaps) } :
        m.rowFunc = "metricKVConverter" }

\* The cells drawn for the first column of a key-value row: keys with a
\* compiled metric, a key without one, and cells that are no text.
KeyCells ==
    { StrCell("max_client_conn"), StrCell("listen_backlog"), StrCell("unix_socket_dir"),
      IntCell(MaxInt), NilCell }

\* The rows of SHOW config drawn: key, value and "changeable", or key and
\* value, or a key alone.
KVRows ==
    { RowResult(<< "key", "value", "changeable" >>, << k, v, StrCell("yes") >>) :
        k \in KeyCells, v \in CoerceInputs }
    \cup { RowResult(<< "key", "value" >>, << k, v >>) : k \in KeyCells, v \in CoerceInputs }
    \cup { RowResult(<< "key" >>, << k >>) : k \in KeyCells }

KVInputs == { [m |-> m, result |-> r] : m \in KVNamespaceMaps, r \in KVRows }

InitKV ==
    /\ metricMap = << >>
    /\ Fresh
    /\ arg \in KVInputs
    /\ res = NilCell

\* nonfatal, err := metricKVConverter(m, &result, ch)
KVApply ==
    /\ res = NilCell
    /\ res' = metricKVConverter(arg.m, arg.result)
    /\ UNCHANGED << arg, metricMap, up, error, duration, totalScrapes, readers, conn,
                    exited, pc, idx, rows, ret, ch, described, hist >>

NextKV == KVApply

SpecKV == InitKV /\ [][NextKV]_vars

\* ---------------------- makeMetricMaps over the whole schema (SpecMaps)

\* The namespaces of the two schema tables, and the table of a namespace.
SchemaNamespaces == (DOMAIN metricRowMaps) \cup (DOMAIN metricKVMaps)

SchemaOf(ns) == IF ns \in DOMAIN metricRowMaps THEN metricRowMaps[ns] ELSE metricKVMaps[ns]

\* What makeMetricMaps appends for the namespace ns when the range over its
\* columns visits the label columns in the order labels.
NamespaceMap(ns, labels) ==
    convert(namespace, ns, SchemaOf(ns),
            IF ns \in DOMAIN metricRowMaps THEN "metricRowConverter" ELSE "metricKVConverter",
            labels)

\* A namespace of the schema with an order of its label columns.
MapInputs ==
    UNION { { [ns |-> ns, labels |-> l] : l \in Orders(LabelColumns(SchemaOf(ns))) } :
              ns \in SchemaNamespaces }

\* The cells drawn for the one value column of an emitted row.
EmitCells == { IntCell(2500000), StrCell("7"), NilCell }

\* A row of the namespace of m with a text in every label column and the
\* cell v in the column c (row strategy), or the row (c, v) (key-value).
RowWith(m, c, v) ==
    IF m.rowFunc = "metricRowConverter"
      THEN RowResult(m.labels \o << c >>,
                     [k \in 1 .. (Len(m.labels) + 1) |->
                         IF k <= Len(m.labels) THEN StrCell("db1") ELSE v])
      ELSE RowResult(<< "key", "value" >>, << StrCell(c), v >>)

InitMaps ==
    /\ metricMap = << >>
    /\ Fresh
    /\ arg \in MapInputs
    /\ res = NilCell

\* thisMap of one namespace is built.
MapBuild ==
    /\ res = NilCell
    /\ res' = [m |-> NamespaceMap(arg.ns, arg.labels), column |-> "", cell |-> NilCell,
               out |-> NoReturn]
    /\ UNCHANGED << arg, metricMap, up, error, duration, totalScrapes, readers, conn,
                    exited, pc, idx, rows, ret, ch, described, hist >>

\* The converter of the namespace is run on a row that has the cell v in
\* the column c.
MapEmit ==
    /\ res # NilCell /\ res.column = ""
    /\ \E c \in DOMAIN res.m.columnMappings : \E v \in EmitCells :
          res' = [res EXCEPT !.column = c, !.cell = v,
                             !.out = rowFunc(res.m, RowWith(res.m, c, v))]
    /\ UNCHANGED << arg, metricMap, up, error, duration, totalScrapes, readers, conn,
                    exited, pc, idx, rows, ret, ch, described, hist >>

NextMaps == MapBuild \/ MapEmit

SpecMaps == InitMaps /\ [][NextMaps]_vars

\* ------------------------------------------------- what a poll should do

\* The namespace observations a Collect has sent (everything but the four
\* health metrics).
NamespaceMetrics(p) == SelectSeq(ch[p], LAMBDA x : x.vtype # "live")

\* How many times a Collect has sent the health metric of descriptor d.
HealthCount(p, d) ==
    Len(SelectSeq(ch[p], LAMBDA x : x.vtype = "live" /\ x.desc = d))

\* A cell of a column with a compiled metric does not coerce.
FailsCoercion(cell) ==
    \/ cell.kind \in {"string", "bytes"} /\ ParseFloat(cell.s).err
    \/ cell.kind \notin {"int64", "float64", "time", "string", "bytes", "nil"}

\* The rows of an answer that the namespace map m has an observation for,
\* as the schema tells: for the row strategy the (row, column) pairs whose
\* column has a compiled metric, for the key-value strategy the rows whose
\* key has one.
Compiled(m, rs) ==
    IF m.rowFunc = "metricRowConverter"
      THEN { << r, c >> \in (DOMAIN rs.rows) \X (DOMAIN rs.ColumnNames) :
               rs.ColumnNames[c] \in DOMAIN m.columnMappings }
      ELSE { << r, c >> \in (DOMAIN rs.rows) \X {2} :
               /\ Len(rs.rows[r].data) >= 2
               /\ rs.rows[r].data[1].kind = "string"
               /\ rs.rows[r].data[1].s \in DOMAIN m.columnMappings }

\* The query succeeds and no cell fails coercion.
CleanAnswer(m, rs) ==
    /\ ~rs.queryErr /\ ~rs.columnsErr /\ ~rs.rowsErr
    /\ \A r \in DOMAIN rs.rows : ~rs.rows[r].scanErr
    /\ m.rowFunc = "metricKVConverter" =>
         \A r \in DOMAIN rs.rows :
            Len(rs.rows[r].data) >= 2 /\ rs.rows[r].data[1].kind = "string"
    /\ \A rc \in Compiled(m, rs) : ~FailsCoercion(rs.rows[rc[1]].data[rc[2]])

\* The cells of the answers of p's poll that have a compiled metric and do
\* not coerce: the non-fatal errors the poll has to count.
CoercionFailures(p) ==
    SumOver([k \in DOMAIN hist[p].answers |->
               Cardinality({ rc \in Compiled(metricMap[k], hist[p].answers[k]) :
                   FailsCoercion(hist[p].answers[k].rows[rc[1]].data[rc[2]]) })],
            DOMAIN hist[p].answers)

\* The observations the answers of p's poll call for.
ExpectedObservations(p) ==
    SumOver([k \in DOMAIN hist[p].answers |->
               Cardinality(Compiled(metricMap[k], hist[p].answers[k]))],
            DOMAIN hist[p].answers)

\* The step in which the poll of p returns (scrape's last deferred call).
Returns(p) == pc[p] = "durationSet" /\ pc'[p] = "sendHealth"

\* The step in which the poll of p leaves the guard (the deferred RUnlock).
LeavesGuard(p) == pc[p] = "RUnlock" /\ pc'[p] = "durationSet"

\* The step in which goroutine q issues a query: the probe or a status query.
IssuesQuery(q) ==
    \/ hist[q].probe = "none" /\ hist'[q].probe # "none"
    \/ Len(hist'[q].answers) > Len(hist[q].answers)

\* The Collect of p is over: it returned, or the process ended under it.
CollectOver(p) ==
    \/ pc[p] = "collected"
    \/ exited # "" /\ pc[p] \in ScrapePcs \cup {"panicked", "sendHealth"}

\* ---------------------------------------------------------------- claims

\* C1: two concurrent Collect calls never interleave their polls: while a
\* poll holds the guard taken in scrape, no other poll issues the liveness
\* probe or a namespace status query.
C1_PollsNeverInterleave ==
    [][ \A p \in Procs : \A q \in Procs \ {p} :
          (pc[p] \in GuardPcs /\ pc'[p] \in GuardPcs) => ~IssuesQuery(q) ]_vars

\* C2: a fatal error returned by Query aborts only the current poll; the
\* process keeps running and serves the next poll request.
C2_FatalErrorKeepsProcess ==
    \A p \in Procs : (pc[p] = "queryReturned" /\ ret[p].err # "") => exited # "fatal"

\* C3: every Collect, whatever the outcome of its poll, ends having sent each
\* of the four health metrics exactly once.
C3_EveryCollectSendsHealth ==
    \A p \in Procs :
        CollectOver(p) => \A d \in HealthDescs : HealthCount(p, d) = 1

\* The state part of C4: a poll whose liveness probe failed has issued no
\* namespace status query and sent no namespace observation, and is on the
\* way out of scrape; the read-lock count is the number of polls inside the
\* guard (so a returned poll holds no lock).
C4_FailedProbeState ==
    /\ readers = Cardinality({ q \in Procs : pc[q] \in GuardPcs })
    /\ \A p \in Procs :
         hist[p].probe = "fail" =>
            /\ hist[p].answers = << >>
            /\ NamespaceMetrics(p) = << >>
            /\ pc[p] \in {"probeFailError", "probeFailUp", "RUnlock", "durationSet",
                          "sendHealth", "collected"}

\* The step part of C4: after a failed probe the poll sets up to 0 and goes
\* straight to the deferred calls, which release the guard and record the
\* duration.
C4_FailedProbeStep ==
    \A p \in Procs :
        (hist[p].probe = "fail" /\ pc'[p] # pc[p]) =>
            /\ pc[p] = "probeFailUp" => (up' = 0 /\ pc'[p] = "RUnlock")
            /\ pc[p] = "RUnlock" => (readers' = readers - 1 /\ pc'[p] = "durationSet")
            /\ pc[p] = "durationSet" => (duration' = p /\ pc'[p] = "sendHealth")

\* C4: a poll whose liveness probe fails sets up to 0, issues no namespace
\* status query, sends no namespace observation, records the duration and
\* returns with the guard released.
C4_FailedProbeEndsPoll ==
    [][ C4_FailedProbeState /\ C4_FailedProbeState' /\ C4_FailedProbeStep ]_vars

\* C4 happens: a Collect whose probe failed has returned, up is 0, the
\* duration is the one of that poll and nobody holds the guard.
C4_Witness ==
    \E p \in Procs :
        /\ hist[p].probe = "fail" /\ pc[p] = "collected"
        /\ up = 0 /\ duration = p /\ readers = 0

C6_TotalScrapesCountsPolls ==
    [][ /\ totalScrapes' >= totalScrapes
        /\ totalScrapes' =
             SumOver([p \in Procs |->
                        hist'[p].polls
                        + (IF pc'[p] \in AfterIncPcs \cup {"panicked"} THEN 1 ELSE 0)],
                     Procs) ]_vars

\* C6 happens: MaxScrapes polls have run, one of them ended by a liveness
\* failure, one successful, one run by Describe, and the counter is
\* MaxScrapes.
C6_Witness ==
    /\ totalScrapes = MaxScrapes
    /\ \E p \in Collectors : hist[p].probe = "fail" /\ pc[p] = "collected"
    /\ \E p \in Collectors : hist[p].probe = "ok" /\ pc[p] = "collected"

\* C7 as stated: the descriptor of every observation a Collect sends was
\* among those Describe sent.
C7_DescribeCoversCollect ==
    \A p \in Collectors :
        \A k \in DOMAIN ch[p] : ch[p][k].desc \in described

\* C7 as amended: Describe sends the descriptors of exactly the metrics the
\* one poll it runs sends. The four health descriptors are always among
\* them, so every health metric of a later Collect is described; a namespace
\* observation of a later Collect is described if Describe's poll sent an
\* observation of the same column.
C7_DescribeCoversItsOwnPoll ==
    /\ pc[Main] \in {"sendHealth", "collected"} =>
         described = { ch[Main][k].desc : k \in DOMAIN ch[Main] }
    /\ pc[Main] = "serving" => HealthDescs \subseteq described
    /\ \A p \in Collectors :
         \A k \in DOMAIN ch[p] :
            ch[p][k].vtype = "live" => ch[p][k].desc \in described

\* C7 happens: Describe ran while the service was down and described the
\* four health descriptors only; a later Collect has sent its health metrics
\* and namespace observations.
C7_Witness ==
    /\ pc[Main] = "serving" /\ described = HealthDescs
    /\ \E p \in Collectors :
         /\ pc[p] = "collected"
         /\ NamespaceMetrics(p) # << >>
         /\ \A d \in HealthDescs : HealthCount(p, d) = 1

\* C8: a poll whose probe succeeds, whose namespace queries all succeed and
\* in which no cell fails coercion ends (leaves the guard) with up = 1 and
\* lastScrapeErrorCount = 0 and has sent exactly one observation for each
\* (row, compiled value column) pair of a row-strategy namespace and for
\* each key-value row whose key is compiled.
C8_CleanPollResult ==
    [][ \A p \in Procs :
          ( /\ LeavesGuard(p)
            /\ hist[p].probe = "ok"
            /\ Len(hist[p].answers) = Len(metricMap)
            /\ \A k \in DOMAIN hist[p].answers :
                  CleanAnswer(metricMap[k], hist[p].answers[k]) )
          => /\ up' = 1
             /\ error' = 0
             /\ Len(NamespaceMetrics(p)) = ExpectedObservations(p) ]_vars

\* --------------------------------------------- claims about dbToFloat64

RECURSIVE Pow10(_)
Pow10(n) == IF n = 0 THEN 1 ELSE 10 * Pow10(n - 1)

\* The float64 f is the number num / den.
IsNumber(f, num, den) ==
    /\ ~f.nan
    /\ IF f.e >= 0 THEN f.m * Pow10(f.e) * den = num
                   ELSE f.m * den = num * Pow10(0 - f.e)

\* The texts of Texts that are base-10 floats, each with the number it
\* denotes as << numerator, denominator >>; the other texts are no floats.
DecimalTexts ==
    ("3" :> << 3, 1 >>) @@ ("7" :> << 7, 1 >>) @@ ("100" :> << 100, 1 >>) @@
    ("42.5" :> << 425, 10 >>) @@ ("-7" :> << 0 - 7, 1 >>) @@ ("+3" :> << 3, 1 >>) @@
    ("1." :> << 1, 1 >>) @@ (".5" :> << 5, 10 >>) @@ ("2500000" :> << 2500000, 1 >>)

CompiledColumns(m, result, ok) ==
    { k \in DOMAIN result.ColumnNames :
        /\ result.ColumnNames[k] \in DOMAIN m.columnMappings
        /\ dbToFloat64(result.ColumnData[k]).ok = ok }

\* C10: for every row, metricRowConverter emits exactly one observation for
\* each result column with a compiled metric whose cell coerces with
\* ok = true, returns exactly one non-fatal error for each such column whose
\* cell coerces with ok = false (going on with the columns after it), and
\* nothing for a column absent from the compiled map.
C10_RowConverterCounts ==
    res # NilCell =>
        /\ Len(res.metrics) = Cardinality(CompiledColumns(arg.m, arg.result, TRUE))
        /\ Len(res.nonfatal) = Cardinality(CompiledColumns(arg.m, arg.result, FALSE))
        /\ \A k \in DOMAIN res.metrics :
              \E c \in CompiledColumns(arg.m, arg.result, TRUE) :
                  res.metrics[k].desc
                      = arg.m.columnMappings[arg.result.ColumnNames[c]].desc

\* The label string the schema asks for a label cell: the empty string for
\* null, the text of a text, the base-10 text of an integer, and the empty
\* string for any other kind.
LabelOf(cell) ==
    CASE cell.kind = "string" -> cell.s
      [] cell.kind = "int64"  -> FormatInt(cell.i)
      [] OTHER -> ""

\* The cell of the result column named columnName (the column is there).
CellNamed(result, columnName) ==
    result.ColumnData[CHOOSE k \in DOMAIN result.ColumnNames :
                          result.ColumnNames[k] = columnName]

\* C11: for every row and every kind of cell in a label column,
\* metricRowConverter resolves exactly one label string per label column, in
\* the order of m.labels (null gives "", an integer its base-10 text, any
\* other kind that is no text gives ""), so every observation it emits has as
\* many label values as its descriptor has label names, and the converter
\* ends without a fatal error and without a panic.
C11_OneLabelPerLabelColumn ==
    res # NilCell =>
        /\ Len(CollectLabels(arg.m, arg.result, 1, << >>).labelValues) = Len(arg.m.labels)
        /\ \A k \in DOMAIN arg.m.labels :
              arg.m.labels[k] \in Range(arg.result.ColumnNames) =>
                 /\ k \in DOMAIN CollectLabels(arg.m, arg.result, 1, << >>).labelValues
                 /\ CollectLabels(arg.m, arg.result, 1, << >>).labelValues[k]
                      = LabelOf(CellNamed(arg.result, arg.m.labels[k]))
        /\ \A k \in DOMAIN res.metrics :
              Len(res.metrics[k].labelValues) = Len(res.metrics[k].desc.variableLabels)
        /\ res.err = ""
        /\ ~res.panicked

\* ------------------------------------- claims about metricKVConverter

\* The key-value row of arg has at least two columns and a text key.
WellFormedKV == Len(arg.result.ColumnData) >= 2 /\ arg.result.ColumnData[1].kind = "string"

\* The key of the key-value row of arg has a compiled metric.
KnownKey == arg.result.ColumnData[1].s \in DOMAIN arg.m.columnMappings

\* C12: for a key-value row with at least two columns and a text key,
\* metricKVConverter does exactly one of: the key is compiled and the second
\* cell coerces, then it emits exactly one observation with no label and the
\* value coercedValue * multiplier and returns no error; the key is compiled
\* and the second cell does not coerce, then it emits nothing and returns
\* exactly one non-fatal error; the key is not compiled, then it emits
\* nothing and returns no error.
C12_KVConverterCases ==
    (res # NilCell /\ WellFormedKV) =>
        /\ res.err = "" /\ ~res.panicked
        /\ IF KnownKey /\ dbToFloat64(arg.result.ColumnData[2]).ok
             THEN /\ res.nonfatal = << >>
                  /\ Len(res.metrics) = 1
                  /\ res.metrics[1].desc = arg.m.columnMappings[arg.result.ColumnData[1].s].desc
                  /\ res.metrics[1].labelValues = << >>
                  /\ res.metrics[1].value
                       = FMul(dbToFloat64(arg.result.ColumnData[2]).value,
                              arg.m.columnMappings[arg.result.ColumnData[1].s].multiplier)
           ELSE IF KnownKey
             THEN /\ res.metrics = << >>
                  /\ Len(res.nonfatal) = 1
                  /\ res.nonfatal[1].key = arg.result.ColumnData[1].s
           ELSE /\ res.metrics = << >>
                /\ res.nonfatal = << >>

\* C12 happens: metricKVConverter has been applied to the row
\* (max_client_conn, "100", yes) and has sent one observation of value 100.
C12_Witness ==
    /\ res # NilCell
    /\ arg.result.ColumnData = << StrCell("max_client_conn"), StrCell("100"), StrCell("yes") >>
    /\ Len(res.metrics) = 1 /\ IsNumber(res.metrics[1].value, 100, 1)
    /\ res.metrics[1].desc.fqName = "pgbouncer_config_max_client_conn"

\* ---------------------------------------- claims about makeMetricMaps

\* The number an emitted cell stands for, as << numerator, denominator >>.
EmitNumber(cell) ==
    IF cell = IntCell(2500000) THEN << 2500000, 1 >> ELSE << 7, 1 >>

\* The denominator of the scale factor of a usage: 1e-6 for GAUGE_MS, else 1.
ScaleDen(usage) == IF usage = "GAUGE_MS" THEN 1000000 ELSE 1

WritePcs ==
    {"errorSet0", "totalScrapesInc", "probeFailError", "probeFailUp", "upSet1",
     "queryReturned", "durationSet"}

\* The positions of a poll between its first and its last write of a health
\* gauge: the poll is writing them.
WritingPcs == ScrapePcs \ {"RLock"}

\* C14: while Collect calls overlap, every write of a health gauge by a poll,
\* and the read of the four health metrics by its Collect (the sends after
\* scrape), happen while no other poll is writing the gauges, so the values
\* a Collect emits are the ones its own poll left.
C14_HealthGaugesNotShared ==
    [][ \A p \in Procs :
          (pc'[p] # pc[p] /\ pc[p] \in WritePcs \cup {"sendHealth"})
             => \A q \in Procs \ {p} : pc[q] \notin WritingPcs ]_vars

\* ------------------------------- claims about the loop over metricMap

\* The poll of p is over: it has left the guard, or the process has ended
\* under it.
PollOver(p) ==
    \/ pc[p] \in {"durationSet", "sendHealth", "collected"}
    \/ exited # "" /\ pc[p] \in ScrapePcs \cup {"panicked"}

\* No status query of the poll of p has returned a fatal error.
NoFatalAnswer(p) ==
    \A k \in DOMAIN hist[p].answers : Query(metricMap[k], hist[p].answers[k]).err = ""

\* The non-fatal errors the status queries of the poll of p have returned.
NonFatalSoFar(p) ==
    SumOver([k \in DOMAIN hist[p].answers |->
               Len(Query(metricMap[k], hist[p].answers[k]).nonfatal)],
            DOMAIN hist[p].answers)

\* C15: in a poll whose liveness probe succeeded and in which no namespace
\* returns a fatal error, every namespace of metricMap is queried exactly
\* once, in the order of metricMap (the k-th query of the poll is the one of
\* metricMap[k]); the poll goes on to the next namespace whatever the number
\* of non-fatal errors, and adds them all to the tally (read here in a poll
\* no other poll overlaps).
C15_EveryNamespaceInOrder ==
    \A p \in Procs :
        /\ hist[p].answers # << >> => hist[p].probe = "ok"
        /\ pc[p] = "queryOpen" =>
              idx[p] = Len(hist[p].answers) + 1 /\ idx[p] <= Len(metricMap)
        /\ pc[p] \in {"queryRows", "queryReturned"} => idx[p] = Len(hist[p].answers)
        /\ (pc[p] \in {"queryOpen", "RUnlock"} /\ hist[p].probe = "ok"
              /\ ~hist[p].overlapped) =>
              error = NonFatalSoFar(p)
        /\ (PollOver(p) /\ hist[p].probe = "ok" /\ NoFatalAnswer(p)) =>
              Len(hist[p].answers) = Len(metricMap)

\* ------------------------- Query over a key-value namespace (SpecQuery)

\* The rows of SHOW config drawn for a whole answer: a key with a compiled
\* metric and a value that coerces, one whose value does not coerce, a key
\* without a compiled metric, and a row whose key is no text.
QueryKVRows ==
    { Row(<< StrCell("max_client_conn"), StrCell("100"), StrCell("yes") >>),
      Row(<< StrCell("listen_backlog"), StrCell("abc"), StrCell("yes") >>),
      Row(<< StrCell("unix_socket_dir"), StrCell("/tmp"), StrCell("no") >>),
      Row(<< IntCell(MaxInt), StrCell("100"), StrCell("yes") >>) }

\* A result with the key column alone.
QueryKeyRows == { Row(<< StrCell("max_client_conn") >>) }

MaxRows == 3

SeqsUpTo(S, n) == UNION { [1 .. k -> S] : k \in 0 .. n }

\* The answers to "SHOW config;" drawn: up to MaxRows rows of three columns,
\* or rows of one column, with or without an error of rows.Err at the end.
QueryAnswers ==
    { Answer(FALSE, FALSE, << "key", "value", "changeable" >>, rws, e) :
        rws \in SeqsUpTo(QueryKVRows, MaxRows), e \in BOOLEAN }
    \cup { Answer(FALSE, FALSE, << "key" >>, rws, e) :
             rws \in SeqsUpTo(QueryKeyRows, MaxRows), e \in BOOLEAN }

QueryInputs == { [m |-> m, rs |-> rs] : m \in KVNamespaceMaps, rs \in QueryAnswers }

InitQuery ==
    /\ metricMap = << >>
    /\ Fresh
    /\ arg \in QueryInputs
    /\ res = NilCell

\* nonFatalErrors, err := mapping.Query(ch, db)
QueryApply ==
    /\ res = NilCell
    /\ res' = Query(arg.m, arg.rs)
    /\ UNCHANGED << arg, metricMap, up, error, duration, totalScrapes, readers, conn,
                    exited, pc, idx, rows, ret, ch, described, hist >>

NextQuery == QueryApply

SpecQuery == InitQuery /\ [][NextQuery]_vars

\* ------------------------------------ claims about Query's fatal errors

\* Row i of the answer of arg breaks the key-value layout: fewer than two
\* columns, or a first cell that is no text.
BadKVRow(i) ==
    \/ Len(arg.rs.rows[i].data) < 2
    \/ arg.rs.rows[i].data[1].kind # "string"

\* The first row of the answer that breaks the layout (0: none does).
FirstBadRow ==
    IF \E i \in 1 .. Len(arg.rs.rows) : BadKVRow(i)
      THEN CHOOSE i \in 1 .. Len(arg.rs.rows) :
               BadKVRow(i) /\ \A j \in 1 .. i - 1 : ~BadKVRow(j)
      ELSE 0

\* Row i has a key with a compiled metric.
CompiledKey(i) == arg.rs.rows[i].data[1].s \in DOMAIN arg.m.columnMappings

\* The rows before row k whose key is compiled and whose value coerces,
\* and those whose value does not.
EarlierSent(k) ==
    { i \in 1 .. k - 1 : CompiledKey(i) /\ ~FailsCoercion(arg.rs.rows[i].data[2]) }

EarlierFailed(k) ==
    { i \in 1 .. k - 1 : CompiledKey(i) /\ FailsCoercion(arg.rs.rows[i].data[2]) }

\* C16: when a key-value row has fewer than two columns or a first cell
\* that is no text, metricKVConverter emits nothing and returns a fatal
\* error, and Query stops at once: it returns that fatal error, nothing of
\* the later rows nor of rows.Err, and exactly the observations and the
\* non-fatal errors of the rows before, in their order.
C16_FatalRowStopsQuery ==
    (res # NilCell /\ FirstBadRow > 0) =>
        /\ metricKVConverter(arg.m,
               RowResult(arg.rs.ColumnNames, arg.rs.rows[FirstBadRow].data)).metrics = << >>
        /\ metricKVConverter(arg.m,
               RowResult(arg.rs.ColumnNames, arg.rs.rows[FirstBadRow].data)).err # ""
        /\ res.err
             = metricKVConverter(arg.m,
                   RowResult(arg.rs.ColumnNames, arg.rs.rows[FirstBadRow].data)).err
        /\ ~res.panicked
        /\ Len(res.metrics) = Cardinality(EarlierSent(FirstBadRow))
        /\ Len(res.nonfatal) = Cardinality(EarlierFailed(FirstBadRow))
        /\ \A j \in 1 .. Len(res.nonfatal) : res.nonfatal[j] # RowsError
        /\ res.metrics
             = Query(arg.m, Rows(arg.rs.ColumnNames,
                                 SubSeq(arg.rs.rows, 1, FirstBadRow - 1))).metrics
        /\ res.nonfatal
             = Query(arg.m, Rows(arg.rs.ColumnNames,
                                 SubSeq(arg.rs.rows, 1, FirstBadRow - 1))).nonfatal

\* C16 happens: Query has met a row with a key that is no text as the third
\* row, after a row that sent an observation and a row whose value did not
\* coerce, with an error of rows.Err pending; it returned the fatal error
\* with the one observation and the one non-fatal error.
C16_Witness ==
    /\ res # NilCell
    /\ Len(arg.rs.rows) = 3 /\ arg.rs.rowsErr
    /\ arg.rs.rows[1].data[1] = StrCell("max_client_conn")
    /\ arg.rs.rows[2].data[1] = StrCell("listen_backlog")
    /\ arg.rs.rows[3].data[1] = IntCell(MaxInt)
    /\ res.err = "key field isn't string"
    /\ Len(res.metrics) = 1 /\ Len(res.nonfatal) = 1

\* ---------------- descriptor names over the whole schema (SpecNames)

RECURSIVE OneOrder(_)
\* One of the orders in which the range over a map can visit the set S.
OneOrder(S) ==
    IF S = {} THEN << >>
    ELSE << CHOOSE x \in S : TRUE >> \o OneOrder(S \ { CHOOSE x \in S : TRUE })

\* The value columns of both schema tables, each with its namespace.
ValueColumns ==
    UNION { { [ns |-> ns, column |-> c] :
                c \in (DOMAIN SchemaOf(ns)) \ LabelColumns(SchemaOf(ns)) } :
              ns \in SchemaNamespaces }

\* Two different value columns, of one namespace or of two.
NameInputs ==
    { [a |-> x, b |-> y] : x \in ValueColumns, y \in ValueColumns } \
        { [a |-> x, b |-> x] : x \in ValueColumns }

\* The descriptor makeMetricMaps compiles for the value column c.
CompiledDesc(c) ==
    NamespaceMap(c.ns, OneOrder(LabelColumns(SchemaOf(c.ns)))).columnMappings[c.column].desc

InitNames ==
    /\ metricMap = << >>
    /\ Fresh
    /\ arg \in NameInputs
    /\ res = NilCell

\* makeMetricMaps compiles the namespaces of the two columns of arg.
NamesBuild ==
    /\ res = NilCell
    /\ res' = [a |-> CompiledDesc(arg.a), b |-> CompiledDesc(arg.b)]
    /\ UNCHANGED << arg, metricMap, up, error, duration, totalScrapes, readers, conn,
                    exited, pc, idx, rows, ret, ch, described, hist >>

NextNames == NamesBuild

SpecNames == InitNames /\ [][NextNames]_vars

\* ------------------------------------- claims about descriptor names

\* C17: over all namespaces of both schema tables, two different value
\* columns, of the same namespace or of different ones, never compile to
\* the same descriptor name; each name is prefix_namespace_exportedName, or
\* prefix_namespace_columnName for a column without an exported name.
C17_DescriptorNamesDistinct ==
    res # NilCell =>
        /\ res.a.fqName # res.b.fqName
        /\ \A x \in {"a", "b"} :
              res[x].fqName
                = namespace \o "_" \o arg[x].ns \o "_"
                    \o (IF SchemaOf(arg[x].ns)[arg[x].column].promMetricName # ""
                          THEN SchemaOf(arg[x].ns)[arg[x].column].promMetricName
                          ELSE arg[x].column)

\* C17 happens: the descriptors of two columns of different namespaces have
\* been compiled, one named after its exported name and one after its
\* column name.
C17_Witness ==
    /\ res # NilCell
    /\ arg.a = [ns |-> "stats", column |-> "total_requests"]
    /\ arg.b = [ns |-> "lists", column |-> "pools"]
    /\ res.a.fqName = "pgbouncer_stats_requests_total"
    /\ res.b.fqName = "pgbouncer_lists_pools"

\* ------------------------------ the orchestrator, scheduled (SpecLive)

\* A step of the poll the goroutine p runs, from e.mutex.RLock() to the
\* last send of Collect, the rest of mapping.Query (QueryRows) left aside.
PollStep(p) ==
    \/ RLock(p) \/ ErrorSet0(p) \/ TotalScrapesInc(p)
    \/ Probe(p) \/ ProbeFailError(p) \/ ProbeFailUp(p) \/ ProbeClose(p) \/ UpSet1(p)
    \/ QueryOpen(p) \/ QueryReturned(p)
    \/ RUnlock(p) \/ DurationSet(p) \/ SendHealth(p)

\* The move of pc that QueryRows(p) makes. The loop over the rows comes to
\* an end whatever the answer holds, so QueryRows(p) can be taken exactly
\* when p is at queryRows, and the steps of p from there are its steps.
QueryRowsMoves(p) ==
    /\ exited = "" /\ pc[p] = "queryRows"
    /\ \E to \in {"queryReturned", "panicked"} : pc' = [pc EXCEPT ![p] = to]

\* The Go scheduler runs every goroutine that can run, the proxied service
\* answers every query, and the metric channel is drained: a poll that can
\* take a step for good takes it.
SpecLive ==
    Spec /\ \A p \in Procs : WF_vars(PollStep(p)) /\ WF_pc(QueryRowsMoves(p))

\* ------------------------------------- claims about the one connection

\* The positions of a Collect call in flight.
CollectPcs == ScrapePcs \cup {"durationSet", "sendHealth"}

\* The poll of p holds no connection and no open result set.
HoldsNothing(p) == conn # p /\ rows[p] = NoAnswer

\* C18: a poll asks the pool for a connection (the probe, or the query of a
\* namespace) only when it holds no open result set, and the holder of the
\* one connection is never one that waits for it; hence every Collect call
\* in flight, alone or overlapping others, comes to its end (or the process
\* exits).
C18_OneConnectionNoDeadlock ==
    /\ [](\A p \in Procs :
            /\ pc[p] \in {"probe", "queryOpen"} => HoldsNothing(p)
            /\ conn = p => pc[p] \in {"probeClose", "queryRows"})
    /\ \A p \in Procs :
          (pc[p] \in CollectPcs) ~> (pc[p] \notin CollectPcs \/ exited # "")

\* C18 happens: a poll waits for the connection at the query of its second
\* namespace, having closed the rows of its first, while an overlapping
\* poll holds the connection with the rows of its probe open.
C18_Witness ==
    \E p \in Procs, q \in Procs :
        /\ p # q /\ exited = ""
        /\ pc[p] = "queryOpen" /\ idx[p] = 2 /\ HoldsNothing(p)
        /\ pc[q] = "probeClose" /\ conn = q

\* ----------------------------- claims about the labels of an observation

\* The label a row gives for the label column named L: that of the cell of
\* the result column named L, and the empty text of a missing value when the
\* result has no such column.
LabelFor(result, L) ==
    IF L \in Range(result.ColumnNames) THEN LabelOf(CellNamed(result, L)) ELSE ""

\* C19: in every observation metricRowConverter emits, the label value at
\* the position of the label column L comes from the cell of the result
\* column named L of the same row and from no other column, also when the
\* result has no column named L.
C19_LabelFromItsColumn ==
    res # NilCell =>
        \A n \in DOMAIN res.metrics :
            \A k \in DOMAIN arg.m.labels :
                /\ k \in DOMAIN res.metrics[n].labelValues
                /\ res.metrics[n].labelValues[k] = LabelFor(arg.result, arg.m.labels[k])

\* --------------------------- the two converters together (SpecConv)

\* A namespace map of either strategy with a row drawn for it.
ConvInputs == RowInputs \cup KVInputs

InitConv ==
    /\ metricMap = << >>
    /\ Fresh
    /\ arg \in ConvInputs
    /\ res = NilCell

\* n, e := m.rowFunc(m, &result, ch)
ConvApply ==
    /\ res = NilCell
    /\ res' = rowFunc(arg.m, arg.result)
    /\ UNCHANGED << arg, metricMap, up, error, duration, totalScrapes, readers, conn,
                    exited, pc, idx, rows, ret, ch, described, hist >>

NextConv == ConvApply

SpecConv == InitConv /\ [][NextConv]_vars

\* --------------------------------------------- claims about null cells

\* The names under which the row of arg holds a null cell that has a
\* compiled metric: for the row strategy the compiled columns whose cell is
\* null, for the key-value strategy the compiled key of a well-formed row
\* whose value cell is null.
NullCompiled ==
    IF arg.m.rowFunc = "metricRowConverter"
      THEN { arg.result.ColumnNames[k] :
               k \in { k \in DOMAIN arg.result.ColumnNames :
                         /\ arg.result.ColumnNames[k] \in DOMAIN arg.m.columnMappings
                         /\ arg.result.ColumnData[k] = NilCell } }
    ELSE IF WellFormedKV /\ KnownKey /\ arg.result.ColumnData[2] = NilCell
      THEN { arg.result.ColumnData[1].s }
    ELSE {}

\* C20: a null cell in a column (row strategy) or in the value position of
\* a known key (key-value strategy) that has a compiled metric is a
\* successful coercion: the converter emits exactly one observation for it,
\* of value NaN, and returns no non-fatal error for it, so that it adds
\* nothing to the error count.
C20_NullCellIsObserved ==
    res # NilCell =>
        \A c \in NullCompiled :
            /\ Cardinality({ n \in DOMAIN res.metrics :
                               res.metrics[n].desc = arg.m.columnMappings[c].desc }) = 1
            /\ \A n \in DOMAIN res.metrics :
                   res.metrics[n].desc = arg.m.columnMappings[c].desc =>
                       res.metrics[n].value = NaN
            /\ \A e \in DOMAIN res.nonfatal : res.nonfatal[e].key # c

\* ------------- the orchestrator under failing row iterations (SpecIter)

\* The answers the service gives to "SHOW <ns>;" when the iteration over its
\* rows fails: rows.Next delivers the rows listed and rows.Err then reports
\* an error. pools: a row that converts and a row with a cell that does not
\* coerce, followed by the error, and a failing query; config: a row
\* followed by the error, and the same row with no error.
IterAnswers ==
    [ pools |->
        { Answer(FALSE, FALSE, << "database", "cl_active", "maxwait" >>,
                 << Row(<< StrCell("db1"), IntCell(3), NilCell >>),
                    Row(<< StrCell("db2"), StrCell("abc"), IntCell(0) >>) >>, TRUE),
          QueryFails },
      config |->
        { Answer(FALSE, FALSE, << "key", "value" >>,
                 << Row(<< StrCell("max_client_conn"), StrCell("100") >>) >>, TRUE),
          Answer(FALSE, FALSE, << "key", "value" >>,
                 << Row(<< StrCell("max_client_conn"), StrCell("100") >>) >>, FALSE) } ]

\* The query of a namespace, answered with one of IterAnswers.
QueryOpenIter(p) == QueryOpenWith(p, IterAnswers)

NextIter ==
    \/ DescribeBegin
    \/ DescribeEnd
    \/ \E p \in Collectors : CollectBegin(p)
    \/ \E p \in Procs : RLock(p)
    \/ \E p \in Procs : ErrorSet0(p)
    \/ \E p \in Procs : TotalScrapesInc(p)
    \/ \E p \in Procs : Probe(p)
    \/ \E p \in Procs : ProbeFailError(p)
    \/ \E p \in Procs : ProbeFailUp(p)
    \/ \E p \in Procs : ProbeClose(p)
    \/ \E p \in Procs : UpSet1(p)
    \/ \E p \in Procs : QueryOpenIter(p)
    \/ \E p \in Procs : QueryRows(p)
    \/ \E p \in Procs : QueryReturned(p)
    \/ \E p \in Procs : RUnlock(p)
    \/ \E p \in Procs : DurationSet(p)
    \/ \E p \in Procs : SendHealth(p)
    \/ \E p \in Collectors : CollectEnd(p)

SpecIter == Init /\ [][NextIter]_vars

\* ------------------------------- claims about row-iteration errors

\* The answer a with no error of rows.Err.
WithoutRowsError(a) == [a EXCEPT !.rowsErr = FALSE]

\* The iteration over the rows of the answer a under the namespace map m
\* ends with an error of rows.Err: the query and the column list succeed,
\* every delivered row is scanned and converted with no fatal error and no
\* panic, and rows.Err reports an error.
EndsWithRowsError(m, a) ==
    /\ ~a.queryErr /\ ~a.columnsErr /\ a.rowsErr
    /\ Query(m, WithoutRowsError(a)).err = ""
    /\ ~Query(m, WithoutRowsError(a)).panicked

\* Goroutine p is back in scrape from the query of namespace idx[p], whose
\* row iteration ended with an error of rows.Err.
BackWithRowsError(p) ==
    /\ pc[p] = "queryReturned"
    /\ Len(hist[p].answers) = idx[p]
    /\ EndsWithRowsError(metricMap[idx[p]], hist[p].answers[idx[p]])

\* The last n elements of the sequence q.
LastOf(q, n) == SubSeq(q, Len(q) - n + 1, Len(q))

\* Query has returned to p's scrape no fatal error and, last of the
\* non-fatal errors, the one of rows.Err: C21 asks this
\* whenever the row iteration ended with an error of rows.Err.
ReturnedRowsError(p) ==
    /\ pc[p] = "queryReturned"
    /\ ret[p].err = ""
    /\ ret[p].nonfatal # << >>
    /\ ret[p].nonfatal[Len(ret[p].nonfatal)] = RowsError

\* The state part of C21: Query has returned no fatal error and the
\* non-fatal errors of the rows followed by exactly one more; the
\* observations of the rows are on the channel.
C21_RowsErrorState ==
    \A p \in Procs :
        BackWithRowsError(p) =>
            /\ ReturnedRowsError(p)
            /\ ret[p].nonfatal
                 = Append(Query(metricMap[idx[p]],
                                WithoutRowsError(hist[p].answers[idx[p]])).nonfatal,
                          RowsError)
            /\ Len(ch[p]) >= Len(Query(metricMap[idx[p]],
                                       WithoutRowsError(hist[p].answers[idx[p]])).metrics)
            /\ LastOf(ch[p], Len(Query(metricMap[idx[p]],
                                       WithoutRowsError(hist[p].answers[idx[p]])).metrics))
                 = Query(metricMap[idx[p]],
                         WithoutRowsError(hist[p].answers[idx[p]])).metrics

\* The step part of C21: the next step of the poll adds the non-fatal
\* errors, the one of rows.Err among them, to e.error, keeps the process and
\* the channel as they are, and goes on with the next namespace (or, after
\* the last one, to the end of scrape).
C21_RowsErrorStep ==
    \A p \in Procs :
        (ReturnedRowsError(p) /\ pc'[p] # pc[p]) =>
            /\ error' = error + Len(ret[p].nonfatal)
            /\ error' >= error + 1
            /\ exited' = ""
            /\ ch'[p] = ch[p]
            /\ idx'[p] = idx[p] + 1
            /\ pc'[p] = IF idx[p] < Len(metricMap) THEN "queryOpen" ELSE "RUnlock"

\* C21: when the iteration over the rows of a namespace ends with an error
\* of rows.Err, Query returns no fatal error and exactly one non-fatal error
\* more than the rows gave, the observations already sent for the namespace
\* are kept, the error is added to lastScrapeErrorCount and the poll goes on
\* with the next namespace.
C21_RowsErrorIsNonFatal ==
    []C21_RowsErrorState /\ [][C21_RowsErrorStep]_vars

\* C21 happens: a poll that ran alone has returned from scrape after both
\* of its namespaces ended with an error of rows.Err, the first after a
\* row that sent two observations and a row with a cell that did not
\* coerce; the four observations of the poll are on the channel and the
\* error count is 3.
C21_Witness ==
    \E p \in Procs :
        /\ pc[p] = "sendHealth" /\ ~hist[p].overlapped /\ exited = ""
        /\ Len(hist[p].answers) = 2
        /\ hist[p].answers[1].rowsErr /\ hist[p].answers[2].rowsErr
        /\ Len(Query(metricMap[1], hist[p].answers[1]).nonfatal) = 2
        /\ Query(metricMap[2], hist[p].answers[2]).nonfatal = << RowsError >>
        /\ error = 3
        /\ Len(ch[p]) = 4

====
